---------------------------- MODULE Spec2Model ----------------------------
(***************************************************************************)
(* Model of the chart-data service (src/server/app.js, both revisions kept *)
(* in the file) and of its pure data pipeline: normalizePoints, downsample, *)
(* applyTimeWindow, the memoised cache loader, the real-time fetcher and    *)
(* the GET /api/chart-data handler.                                         *)
(*                                                                         *)
(* JavaScript numbers are held exactly as fixed-point decimals             *)
(*     value = hi * 10^6 + lo + f / 1000,  0 <= lo < 10^6,  0 <= f < 1000   *)
(* so that the magnitudes the timestamp classifier compares against (1e9   *)
(* up to 1e14) and the multiplication by 1000 are computed without leaving *)
(* the integers of the model checker.                                      *)
(***************************************************************************)
EXTENDS Integers, Sequences, FiniteSets, TLC

VARIABLES
    raw,        \* normalizer run: the raw input collection (a JS array value)
    series,     \* normalizer run: normalizePoints(raw)
    again,      \* normalizer run: normalizePoints(series)
    phase,      \* normalizer run: "input" | "normalized" | "renormalized"
    points,     \* downsampler run: the input series
    limit,      \* downsampler run: the limit passed
    sampled,    \* downsampler run: downsample(points, limit)
    dphase,     \* downsampler run: "input" | "done"
    revision,   \* service: 1 = cache-only server, 2 = server with the real-time fetcher
    endpoint,   \* service: whether REAL_TIME_API_ENDPOINT is configured
    longTermDataPromise,            \* service: memo slot, 0 = null, k = promise of read k
    normalizedLongTermDataPromise,  \* service: memo slot, 0 = null, j = j-th promise
    loads,      \* service: the promises longTermDataPromise has held, by read
    norms,      \* service: the promises normalizedLongTermDataPromise has held
    reqs,       \* service: the requests and their handlers
    microtasks, \* service: the promise jobs queued, first in first out
    cacheFile,  \* cache fallback: the parsed content of the cache file
    clock,      \* cache fallback: what Date.now() returned
    answer,     \* cache fallback: the body sent
    fphase,     \* cache fallback: "cached" | "answered"
    script,     \* service worker: 1 = the gold-app-v1 script, 3 = the gold-app-v3 script
    lifecycle,  \* service worker: "installing" | "installed" | "activated" | "redundant"
    online,     \* service worker: whether the network can be reached
    cacheStorage, \* service worker: the caches, each a map from URL to stored response
    fetches     \* service worker: the fetch events dispatched and their progress

normVars == <<raw, series, again, phase>>
downVars == <<points, limit, sampled, dphase>>
serverVars == <<revision, endpoint, longTermDataPromise, normalizedLongTermDataPromise,
                loads, norms, reqs, microtasks>>
fallVars == <<cacheFile, clock, answer, fphase>>
swVars == <<script, lifecycle, online, cacheStorage, fetches>>
vars == <<normVars, downVars, serverVars, fallVars, swVars>>

(***************************************************************************)
(* Bounds of the model.                                                    *)
(***************************************************************************)
MaxRaw == 3
MaxPoints == 6
MaxLimit == 5
MaxReq == 2
MaxCached == 192
MaxFetch == 2

(***************************************************************************)
(* JavaScript numbers.                                                     *)
(***************************************************************************)
Num(hi, lo, f) == [hi |-> hi, lo |-> lo, f |-> f]

Whole(k) == Num(k \div 1000000, k % 1000000, 0)

NumLess(a, b) ==
    \/ a.hi < b.hi
    \/ a.hi = b.hi /\ a.lo < b.lo
    \/ a.hi = b.hi /\ a.lo = b.lo /\ a.f < b.f

NumGreater(a, b) == NumLess(b, a)

\* value * 1000
Times1000(a) ==
    Num(a.hi * 1000 + (a.lo \div 1000), (a.lo % 1000) * 1000 + a.f, 0)

\* Math.round: the nearest integer, a half rounding towards +Infinity
MathRound(a) ==
    IF a.f < 500 THEN Num(a.hi, a.lo, 0)
    ELSE IF a.lo + 1 = 1000000 THEN Num(a.hi + 1, 0, 0)
    ELSE Num(a.hi, a.lo + 1, 0)

\* Math.min, Math.max on integers
Min(a, b) == IF a <= b THEN a ELSE b
Max(a, b) == IF a >= b THEN a ELSE b

E9 == Num(1000, 0, 0)
E10 == Num(10000, 0, 0)
E12 == Num(1000000, 0, 0)
E14 == Num(100000000, 0, 0)

(***************************************************************************)
(* JavaScript values: every value is a record with a tag t.                *)
(***************************************************************************)
Undefined == [t |-> "undefined"]
NaN == [t |-> "nan"]
Number(n) == [t |-> "number", n |-> n]
\* a string, held by what Number(s) and Date.parse(s) make of it
String(asNumber, asDate) == [t |-> "string", number |-> asNumber, date |-> asDate]
\* a Date, held by its getTime()
Date(time) == [t |-> "date", time |-> time]
Array(elems) == [t |-> "array", elems |-> elems]
Object(props) == [t |-> "object", props |-> props]
Other == [t |-> "other"]

IsNullish(v) == v.t = "undefined"
IsFinite(v) == v.t = "number"
IsArray(v) == v.t = "array"

\* obj[key], undefined when the property is absent
Get(obj, key) == IF key \in DOMAIN obj.props THEN obj.props[key] ELSE Undefined

\* array[i] with a zero-based i, undefined past the end
At(arr, i) == IF i + 1 \in DOMAIN arr.elems THEN arr.elems[i + 1] ELSE Undefined

\* a ?? b ?? c ... over the listed keys
RECURSIVE Coalesce(_, _)
Coalesce(obj, keys) ==
    IF keys = <<>> THEN Undefined
    ELSE IF ~IsNullish(Get(obj, Head(keys))) THEN Get(obj, Head(keys))
    ELSE Coalesce(obj, Tail(keys))

(***************************************************************************)
(* normalizeTimestamp, normalizePrice, normalizePoint                      *)
(***************************************************************************)
\* the classifier with the 1e10 branch lost: milliseconds only above 1e12
NormalizeNumberTimestampNo1e10(n) ==
    IF NumGreater(n, E12) THEN Number(MathRound(n))
    ELSE Number(MathRound(Times1000(n)))

\* the classifier with a single split at 1e9
NormalizeNumberTimestampAt1e9(n) ==
    IF NumGreater(n, E9) THEN Number(MathRound(n))
    ELSE Number(MathRound(Times1000(n)))

NormalizeNumberTimestamp(n) ==
    IF NumGreater(n, E14) THEN Number(MathRound(n))
    ELSE IF NumGreater(n, E12) THEN Number(MathRound(n))
    ELSE IF NumGreater(n, E10) THEN Number(MathRound(n))
    ELSE IF NumGreater(n, E9) THEN Number(MathRound(Times1000(n)))
    ELSE Number(MathRound(Times1000(n)))

normalizeTimestamp(value) ==
    IF IsNullish(value) THEN NaN
    ELSE IF value.t = "date" THEN value.time
    ELSE IF value.t = "number" THEN NormalizeNumberTimestamp(value.n)
    ELSE IF value.t = "nan" THEN NaN
    ELSE IF value.t = "string" THEN
        IF IsFinite(value.number) THEN NormalizeNumberTimestamp(value.number.n)
        ELSE value.date
    ELSE NaN

normalizePrice(value) ==
    IF IsNullish(value) THEN NaN
    ELSE IF value.t = "number" THEN value
    ELSE IF value.t = "nan" THEN NaN
    ELSE IF value.t = "string" THEN
        IF IsFinite(value.number) THEN value.number ELSE NaN
    ELSE NaN

Null == [t |-> "null"]
IsNull(v) == "t" \in DOMAIN v

Sample(timestamp, price) == [timestamp |-> timestamp, price_usd |-> price]

TimestampKeys == <<"timestamp", "time", "t", "date", "0">>
PriceKeys == <<"price_usd", "price", "value", "usd", "p", "close", "1">>

\* the Array.isArray(point) branch
NormalizePair(point) ==
    LET timestamp == normalizeTimestamp(At(point, 0))
        price == normalizePrice(At(point, 1))
    IN  IF IsFinite(timestamp) /\ IsFinite(price)
        THEN Sample(timestamp.n, price.n)
        ELSE Null

\* !point holds of null, undefined and NaN; the other values that are neither
\* an array nor an object fall through to the final return null
normalizePoint(point) ==
    IF point.t \in {"undefined", "nan"} THEN Null
    ELSE IF IsArray(point) THEN NormalizePair(point)
    ELSE IF point.t = "object" THEN
        LET timestamp == normalizeTimestamp(Coalesce(point, TimestampKeys))
            price == normalizePrice(Coalesce(point, PriceKeys))
        IN  IF IsFinite(timestamp) /\ IsFinite(price)
            THEN Sample(timestamp.n, price.n)
            ELSE IF IsFinite(timestamp) /\ IsArray(Get(point, "value"))
            THEN NormalizePair(Get(point, "value"))
            ELSE Null
    ELSE Null

(***************************************************************************)
(* normalizePoints                                                         *)
(***************************************************************************)
\* the halves a loop over s is evaluated in, one after the other
FirstHalf(s) == SubSeq(s, 1, Len(s) \div 2)
SecondHalf(s) == SubSeq(s, Len(s) \div 2 + 1, Len(s))

\* the loop pushing every point that normalizes, in the order of the input
RECURSIVE MapPoints(_)
MapPoints(elems) ==
    IF elems = <<>> THEN <<>>
    ELSE IF Len(elems) = 1
    THEN LET norm == normalizePoint(elems[1])
         IN  IF IsNull(norm) THEN <<>> ELSE <<norm>>
    ELSE MapPoints(FirstHalf(elems)) \o MapPoints(SecondHalf(elems))

\* Array.prototype.sort((a, b) => a.timestamp - b.timestamp): a stable sort, an
\* element going behind the elements that do not compare greater than it
NotGreater(sorted, x) ==
    Cardinality({ i \in DOMAIN sorted : ~NumGreater(sorted[i].timestamp, x.timestamp) })

InsertByTimestamp(sorted, x) ==
    SubSeq(sorted, 1, NotGreater(sorted, x)) \o <<x>>
        \o SubSeq(sorted, NotGreater(sorted, x) + 1, Len(sorted))

\* two sorted runs merged, the samples of the first run first on equal timestamps
RECURSIVE Merge(_, _)
Merge(a, b) ==
    IF b = <<>> THEN a
    ELSE IF Len(b) = 1 THEN InsertByTimestamp(a, b[1])
    ELSE LET k == NotGreater(a, SecondHalf(b)[1])
         IN  Merge(SubSeq(a, 1, k), FirstHalf(b))
                 \o Merge(SubSeq(a, k + 1, Len(a)), SecondHalf(b))

\* the sort left out
SortByTimestampOmitted(s) == s

RECURSIVE SortByTimestamp(_)
SortByTimestamp(s) ==
    IF Len(s) <= 1 THEN s
    ELSE Merge(SortByTimestamp(FirstHalf(s)), SortByTimestamp(SecondHalf(s)))

\* the dedup loop keeping the first sample of a timestamp
DedupStepFirstWins(deduped, point) ==
    IF deduped # <<>> /\ deduped[Len(deduped)].timestamp = point.timestamp
    THEN deduped
    ELSE Append(deduped, point)

\* one turn of the dedup loop: replace the previous sample on an equal timestamp
DedupStep(deduped, point) ==
    IF deduped # <<>> /\ deduped[Len(deduped)].timestamp = point.timestamp
    THEN [deduped EXCEPT ![Len(deduped)] = point]
    ELSE Append(deduped, point)

\* the dedup loop over normalized, deduped being what it has pushed so far: the
\* second half meets the first in one turn of the loop, on its first sample kept
RECURSIVE Dedup(_, _)
Dedup(normalized, deduped) ==
    IF normalized = <<>> THEN deduped
    ELSE IF Len(normalized) = 1 THEN DedupStep(deduped, normalized[1])
    ELSE LET first == Dedup(FirstHalf(normalized), deduped)
             second == Dedup(SecondHalf(normalized), <<>>)
         IN  DedupStep(first, Head(second)) \o Tail(second)

normalizePoints(pts) ==
    IF ~IsArray(pts) THEN <<>>
    ELSE Dedup(SortByTimestamp(MapPoints(pts.elems)), <<>>)

\* a Sample as the object { timestamp, price_usd } it is
SampleObject(s) ==
    Object([timestamp |-> Number(s.timestamp), price_usd |-> Number(s.price_usd)])

\* a series as the array of objects it is
SeriesArray(s) == Array([i \in DOMAIN s |-> SampleObject(s[i])])

(***************************************************************************)
(* The raw records the normalizer is run on.                               *)
(***************************************************************************)
Pair(a, b) == Array(<<a, b>>)
Str(k) == String(Number(Whole(k)), NaN)

RawPool ==
    { Pair(Number(Whole(1700000000)), Number(Whole(10))),
      Pair(Number(Num(1700000, 0, 0)), Number(Whole(20))),
      Object([timestamp |-> Str(1700000000), price |-> Str(30)]),
      Object([t |-> Number(Whole(1700000060)), p |-> Number(Whole(15))]),
      Pair(Number(Whole(5)), Number(Whole(7))),
      Pair(Number(Whole(-2)), Number(Whole(8))),
      Object([time |-> Number(Whole(20000000)), close |-> Number(Whole(9))]),
      Object([timestamp |-> Number(Whole(0)), price_usd |-> Number(Whole(3))]),
      Object([date |-> Date(Number(Num(1700000, 60000, 0))),
              value |-> Pair(Number(Whole(1700000120)), Number(Whole(11)))]),
      Pair(String(NaN, NaN), Number(Whole(5))),
      Pair(Number(E9), Number(Whole(12))),
      Pair(Number(E10), Number(Whole(13))),
      Pair(Number(Num(0, 1, 500)), Number(Whole(14))),
      Pair(Number(Num(1700000, 0, 500)), Number(Whole(16))),
      Object([timestamp |-> Number(Whole(1700000000)), usd |-> Other]),
      Undefined }

(***************************************************************************)
(* A run of the normalizer: the records arrive, the collection is          *)
(* normalized, and the result is normalized again.                         *)
(***************************************************************************)
WorkerIdle ==
    /\ script = 0
    /\ lifecycle = "idle"
    /\ online = FALSE
    /\ cacheStorage = <<>>
    /\ fetches = <<>>

FallIdle ==
    /\ cacheFile = Array(<<>>)
    /\ clock = Whole(0)
    /\ answer = <<>>
    /\ fphase = "idle"

ServerIdle ==
    /\ revision = 0
    /\ endpoint = FALSE
    /\ longTermDataPromise = 0
    /\ normalizedLongTermDataPromise = 0
    /\ loads = <<>>
    /\ norms = <<>>
    /\ reqs = <<>>
    /\ microtasks = <<>>

DownIdle ==
    /\ points = <<>>
    /\ limit = 1
    /\ sampled = <<>>
    /\ dphase = "idle"

InitNormalize ==
    /\ DownIdle
    /\ ServerIdle
    /\ FallIdle
    /\ WorkerIdle
    /\ raw = Array(<<>>)
    /\ series = <<>>
    /\ again = <<>>
    /\ phase = "input"

Receive(point) ==
    /\ phase = "input"
    /\ Len(raw.elems) < MaxRaw
    /\ raw' = Array(Append(raw.elems, point))
    /\ UNCHANGED <<series, again, phase, downVars, serverVars, fallVars, swVars>>

Normalize ==
    /\ phase = "input"
    /\ series' = normalizePoints(raw)
    /\ phase' = "normalized"
    /\ UNCHANGED <<raw, again, downVars, serverVars, fallVars, swVars>>

Renormalize ==
    /\ phase = "normalized"
    /\ again' = normalizePoints(SeriesArray(series))
    /\ phase' = "renormalized"
    /\ UNCHANGED <<raw, series, downVars, serverVars, fallVars, swVars>>

NextNormalize ==
    \/ \E point \in RawPool : Receive(point)
    \/ Normalize
    \/ Renormalize

SpecNormalize == InitNormalize /\ [][NextNormalize]_vars

(***************************************************************************)
(* Properties of the normalizer.                                           *)
(***************************************************************************)
StrictlyAscending(s) ==
    \A i \in 1..(Len(s) - 1) : NumLess(s[i].timestamp, s[i + 1].timestamp)

\* the indices of the raw records that normalize to timestamp ts
RecordsAt(ts) ==
    { j \in DOMAIN raw.elems :
        /\ ~IsNull(normalizePoint(raw.elems[j]))
        /\ normalizePoint(raw.elems[j]).timestamp = ts }

LastOf(S) == CHOOSE j \in S : \A k \in S : k <= j

RawTimestamps ==
    { normalizePoint(raw.elems[j]).timestamp :
        j \in { k \in DOMAIN raw.elems : ~IsNull(normalizePoint(raw.elems[k])) } }

\* C1: the series normalizePoints returns is strictly ascending by timestamp,
\* whatever mix of valid, invalid and duplicate records went in, in any order.
C1_SortInvariant ==
    phase # "input" => StrictlyAscending(series) /\ StrictlyAscending(again)

C1_Witness ==
    /\ phase = "normalized"
    /\ Len(series) = 2
    /\ Len(raw.elems) = 3
    /\ \E j \in DOMAIN raw.elems : IsNull(normalizePoint(raw.elems[j]))
    /\ \E j, k \in DOMAIN raw.elems :
        /\ j < k
        /\ ~IsNull(normalizePoint(raw.elems[j]))
        /\ ~IsNull(normalizePoint(raw.elems[k]))
        /\ NumGreater(normalizePoint(raw.elems[j]).timestamp,
                      normalizePoint(raw.elems[k]).timestamp)

\* C2: dedup-last-wins: for every timestamp some raw record normalizes to, the
\* series holds exactly one sample, and its price is that of the last such
\* record in input order.
C2_DedupLastWins ==
    phase # "input" =>
        \A ts \in RawTimestamps :
            /\ Cardinality({ i \in DOMAIN series : series[i].timestamp = ts }) = 1
            /\ \A i \in DOMAIN series :
                series[i].timestamp = ts =>
                    series[i].price_usd =
                        normalizePoint(raw.elems[LastOf(RecordsAt(ts))]).price_usd

C2_Witness ==
    /\ phase = "normalized"
    /\ Len(raw.elems) = 3
    /\ Len(series) = 2
    /\ \E ts \in RawTimestamps :
        /\ RecordsAt(ts) = {1, 3}
        /\ normalizePoint(raw.elems[1]).price_usd
             # normalizePoint(raw.elems[3]).price_usd
        /\ NumLess(normalizePoint(raw.elems[2]).timestamp, ts)

\* C3 as stated: normalizing a normalized series gives the identical series,
\* small and negative millisecond timestamps included.
C3_IdempotentAlways ==
    phase = "renormalized" => again = series

\* a millisecond timestamp the classifier reads as milliseconds again
StableTimestamp(ts) == NumGreater(ts, E10) \/ ts = Whole(0)

\* C3 amended: normalizing a normalized series gives the identical series when
\* every timestamp of it is above 1e10 ms (or is 0).
C3_IdempotentAboveThreshold ==
    (phase = "renormalized"
        /\ \A i \in DOMAIN series : StableTimestamp(series[i].timestamp))
    => again = series

C3_Witness ==
    /\ phase = "renormalized"
    /\ Len(series) = 3
    /\ \A i \in DOMAIN series : NumGreater(series[i].timestamp, E10)
    /\ \E i \in DOMAIN series : ~NumGreater(series[i].timestamp, E12)
    /\ again = series

\* the numeric timestamps of the [timestamp, price] pairs given with a finite price
NumericTimestamps ==
    { At(raw.elems[j], 0).n :
        j \in { k \in DOMAIN raw.elems :
                  /\ IsArray(raw.elems[k])
                  /\ At(raw.elems[k], 0).t = "number"
                  /\ IsFinite(normalizePrice(At(raw.elems[k], 1))) } }

\* v read as milliseconds above the threshold, as seconds at or below it
SplitAt(threshold, v) ==
    IF NumGreater(v, threshold) THEN MathRound(v) ELSE MathRound(Times1000(v))

Normalized(ts) == \E i \in DOMAIN series : series[i].timestamp = ts

\* C13 as stated: a finite numeric timestamp v comes out as round(v) when
\* v > 1e9 and as round(v * 1000) when v <= 1e9.
C13_SplitAt1e9 ==
    phase = "normalized" =>
        \A v \in NumericTimestamps :
            /\ normalizeTimestamp(Number(v)) = Number(SplitAt(E9, v))
            /\ Normalized(SplitAt(E9, v))

\* C13: a finite numeric timestamp v comes out as round(v) when v > 1e10 and as
\* round(v * 1000) when v <= 1e10.
C13_SplitAt1e10 ==
    phase = "normalized" =>
        \A v \in NumericTimestamps :
            /\ normalizeTimestamp(Number(v)) = Number(SplitAt(E10, v))
            /\ Normalized(SplitAt(E10, v))

C13_Witness ==
    /\ phase = "normalized"
    /\ E10 \in NumericTimestamps
    /\ Normalized(Times1000(E10))
    /\ Num(1700000, 0, 500) \in NumericTimestamps
    /\ Normalized(Num(1700000, 1, 0))
    /\ Num(0, 1, 500) \in NumericTimestamps
    /\ Normalized(Whole(1500))

(***************************************************************************)
(* downsample                                                              *)
(***************************************************************************)
\* Math.ceil(limit / points.length): the operands swapped
StrideInverted(length, lim) == (lim + length - 1) \div length

\* Math.ceil(points.length / limit)
Stride(length, lim) == (length + lim - 1) \div lim

\* the indices (from 1) the loop for (i = 0; i < length; i += step) visits
\* the loop advancing by one whatever the step
StridedFromEvery(i, length, step) == [k \in 1..(length - i + 1) |-> i + k - 1]

StridedFrom(i, length, step) ==
    IF i > length THEN <<>>
    ELSE [k \in 1..((length - i) \div step + 1) |-> i + (k - 1) * step]

\* points.reduce((min, pt) => (pt.price_usd < min.price_usd ? pt : min), points[0]),
\* as the index of the sample kept
\* over the samples i..j
RECURSIVE ReduceMin(_, _, _)
ReduceMin(pts, i, j) ==
    IF i >= j THEN i
    ELSE LET min == ReduceMin(pts, i, (i + j) \div 2)
             pt == ReduceMin(pts, (i + j) \div 2 + 1, j)
         IN  IF NumLess(pts[pt].price_usd, pts[min].price_usd) THEN pt ELSE min

RECURSIVE ReduceMax(_, _, _)
ReduceMax(pts, i, j) ==
    IF i >= j THEN i
    ELSE LET max == ReduceMax(pts, i, (i + j) \div 2)
             pt == ReduceMax(pts, (i + j) \div 2 + 1, j)
         IN  IF NumGreater(pts[pt].price_usd, pts[max].price_usd) THEN pt ELSE max

\* ensure without its test: the sample is pushed again
EnsureAlways(pts, refs, pt) == Append(refs, pt)

\* ensure with its test inverted
EnsureInverted(pts, refs, pt) ==
    IF \E k \in DOMAIN refs :
          /\ pts[refs[k]].timestamp = pts[pt].timestamp
          /\ pts[refs[k]].price_usd = pts[pt].price_usd
    THEN Append(refs, pt)
    ELSE refs

\* ensure(pt): refs are the samples pushed so far, each held by its index in pts
Ensure(pts, refs, pt) ==
    IF ~\E k \in DOMAIN refs :
          /\ pts[refs[k]].timestamp = pts[pt].timestamp
          /\ pts[refs[k]].price_usd = pts[pt].price_usd
    THEN Append(refs, pt)
    ELSE refs

downsample(pts, lim) ==
    IF Len(pts) <= lim THEN pts
    ELSE
        LET step == Stride(Len(pts), lim)
            strided == StridedFrom(1, Len(pts), step)
            withLast == IF strided[Len(strided)] # Len(pts)
                        THEN Append(strided, Len(pts))
                        ELSE strided
            minPt == ReduceMin(pts, 1, Len(pts))
            maxPt == ReduceMax(pts, 1, Len(pts))
            withMin == Ensure(pts, withLast, minPt)
            withMax == Ensure(pts, withMin, maxPt)
        IN  SortByTimestamp([k \in DOMAIN withMax |-> pts[withMax[k]]])

(***************************************************************************)
(* A run of the downsampler: a strictly ascending series is built sample   *)
(* by sample and then downsampled to a limit.                              *)
(***************************************************************************)
PricePool == { Whole(1), Whole(2), Whole(3) }

\* the timestamp of the i-th sample of the series built: one second apart
TimestampOf(i) == Num(1700000, i * 1000, 0)

NormIdle ==
    /\ raw = Array(<<>>)
    /\ series = <<>>
    /\ again = <<>>
    /\ phase = "idle"

InitDownsample ==
    /\ NormIdle
    /\ ServerIdle
    /\ FallIdle
    /\ WorkerIdle
    /\ points = <<>>
    /\ limit = 1
    /\ sampled = <<>>
    /\ dphase = "input"

Extend(price) ==
    /\ dphase = "input"
    /\ Len(points) < MaxPoints
    /\ points' = Append(points, Sample(TimestampOf(Len(points) + 1), price))
    /\ UNCHANGED <<limit, sampled, dphase, normVars, serverVars, fallVars, swVars>>

Downsample(lim) ==
    /\ dphase = "input"
    /\ limit' = lim
    /\ sampled' = downsample(points, lim)
    /\ dphase' = "done"
    /\ UNCHANGED <<points, normVars, serverVars, fallVars, swVars>>

NextDownsample ==
    \/ \E price \in PricePool : Extend(price)
    \/ \E lim \in 1..MaxLimit : Downsample(lim)

SpecDownsample == InitDownsample /\ [][NextDownsample]_vars

(***************************************************************************)
(* Properties of the downsampler.                                          *)
(***************************************************************************)
Prices(s) == { s[i].price_usd : i \in DOMAIN s }
Contains(s, x) == \E i \in DOMAIN s : s[i] = x
IsMinPrice(p, s) == \A q \in Prices(s) : ~NumLess(q, p)
IsMaxPrice(p, s) == \A q \in Prices(s) : ~NumGreater(q, p)

\* C4 as stated: more than limit samples come down to at most max(limit, 3),
\* and a series of at most limit samples is returned unchanged.
C4_BoundMaxLimit3 ==
    dphase = "done" =>
        /\ Len(points) > limit => Len(sampled) <= Max(limit, 3)
        /\ Len(points) <= limit => sampled = points

\* C4 amended: more than limit samples come down to at most limit + 3, and a
\* series of at most limit samples is returned unchanged.
C4_BoundLimitPlus3 ==
    dphase = "done" =>
        /\ Len(points) > limit => Len(sampled) <= limit + 3
        /\ Len(points) <= limit => sampled = points

C4_Witness ==
    /\ dphase = "done"
    /\ Len(points) > limit
    /\ Len(sampled) = limit + 3

\* C5: the output of downsample holds the first and the last sample of a
\* non-empty input and a sample at the global minimum and maximum price.
C5_ExtremesPreserved ==
    (dphase = "done" /\ points # <<>>) =>
        /\ Contains(sampled, points[1])
        /\ Contains(sampled, points[Len(points)])
        /\ \E i \in DOMAIN sampled : IsMinPrice(sampled[i].price_usd, points)
        /\ \E i \in DOMAIN sampled : IsMaxPrice(sampled[i].price_usd, points)

\* the samples the stride alone visits
OnStride(i) == (i - 1) % Stride(Len(points), limit) = 0

C5_Witness ==
    /\ dphase = "done"
    /\ Len(points) > limit
    /\ limit > 1
    /\ \A i \in DOMAIN points :
        (IsMinPrice(points[i].price_usd, points)
            \/ IsMaxPrice(points[i].price_usd, points))
        => (~OnStride(i) /\ i # Len(points))
    /\ Len(sampled) < Len(points)

\* the indices of points the stride loop of the run visits
StrideIndices == StridedFrom(1, Len(points), Stride(Len(points), limit))

\* the samples returned that the stride loop did not push
Extras == { i \in DOMAIN sampled : \A k \in DOMAIN StrideIndices :
                                       sampled[i] # points[StrideIndices[k]] }

\* C14: with more samples than limit, the strided subset has at most limit
\* samples, every other sample returned is the last one or one of lowest or
\* highest price, and so the result exceeds limit by at most 3.
C14_AtMostThreeExtras ==
    (dphase = "done" /\ Len(points) > limit) =>
        /\ Len(StrideIndices) <= limit
        /\ \A i \in Extras :
              \/ sampled[i] = points[Len(points)]
              \/ IsMinPrice(sampled[i].price_usd, points)
              \/ IsMaxPrice(sampled[i].price_usd, points)
        /\ Cardinality(Extras) <= 3
        /\ Len(sampled) - limit <= 3

C14_Witness ==
    /\ dphase = "done"
    /\ limit = 3
    /\ Len(StrideIndices) = limit
    /\ Cardinality(Extras) = 3
    /\ Len(sampled) - limit = 3

(***************************************************************************)
(* The service: timeframe tables, applyTimeWindow and the responses the    *)
(* two revisions of GET /api/chart-data build.  Revision 1 is the          *)
(* cache-only server (TIMEFRAME_CONFIG, two memo slots), revision 2 the    *)
(* server with the real-time fetcher and the cache as its fallback.        *)
(***************************************************************************)
Infinity == [t |-> "infinity"]

\* a - b
NumMinus(a, b) ==
    LET tf == a.f - b.f
        bf == IF tf < 0 THEN 1 ELSE 0
        tl == a.lo - b.lo - bf
        bl == IF tl < 0 THEN 1 ELSE 0
    IN  Num(a.hi - b.hi - bl, tl + bl * 1000000, tf + bf * 1000)

\* a number of the size of a point limit, as an integer
ToInt(n) == n.hi * 1000000 + n.lo


Config(windowMs, lim) == Object([windowMs |-> windowMs, limit |-> Number(Whole(lim))])

TIMEFRAME_CONFIG ==
    [key \in {"1h", "6h", "24h", "1y", "1y+", "long", "max", "all"} |->
        CASE key = "1h" -> Config(Number(Whole(3600000)), 120)
          [] key = "6h" -> Config(Number(Whole(21600000)), 150)
          [] key = "24h" -> Config(Number(Whole(86400000)), 200)
          [] key = "1y" -> Config(Number(Num(31536, 0, 0)), 500)
          [] OTHER -> Config(Infinity, 500)]

LONG_TERM_TIMEFRAMES == {"all", "1y", "1y+", "long", "max"}

REAL_TIME_TIMEFRAMES ==
    [key \in {"1h", "6h", "24h"} |->
        CASE key = "1h" -> Config(Number(Whole(3600000)), 90)
          [] key = "6h" -> Config(Number(Whole(21600000)), 90)
          [] OTHER -> Config(Number(Whole(86400000)), 96)]

\* the names every plain object inherits from Object.prototype that survive
\* toLowerCase(); table[name] is then the inherited member, an object without
\* windowMs, limit or granularity
ObjectPrototypeKeys == {"constructor", "__proto__"}
Inherited == Object([key \in {} |-> Undefined])

\* table[key] on a plain object
Lookup(table, key) ==
    IF key \in DOMAIN table THEN table[key]
    ELSE IF key \in ObjectPrototypeKeys THEN Inherited
    ELSE Undefined

Truthy(v) == v.t # "undefined"

\* the query parameter: text is what trim().toLowerCase() makes of a string
Query(isString, text) == [isString |-> isString, text |-> text]

\* typeof req.query.timeframe === 'string' ? ... : 'all', then || 'all'
TimeframeKey(query) ==
    IF ~query.isString THEN "all"
    ELSE IF query.text = "" THEN "all"
    ELSE query.text

\* points.slice(-count) for a count >= 0
SliceLast(s, count) ==
    IF count = 0 \/ count >= Len(s) THEN s
    ELSE SubSeq(s, Len(s) - count + 1, Len(s))

\* points.filter(point => Number(point.timestamp) >= cutoff)
RECURSIVE FilterFrom(_, _)
FilterFrom(s, cutoff) ==
    IF s = <<>> THEN <<>>
    ELSE IF Len(s) = 1
    THEN IF NumLess(s[1].timestamp, cutoff) THEN <<>> ELSE s
    ELSE FilterFrom(FirstHalf(s), cutoff) \o FilterFrom(SecondHalf(s), cutoff)

\* revision 1: the window is anchored at the latest sample
applyTimeWindow(s, windowMs) ==
    IF s = <<>> THEN s
    ELSE IF ~IsFinite(windowMs) THEN s
    ELSE FilterFrom(s, NumMinus(s[Len(s)].timestamp, windowMs.n))

\* the window left out
applyTimeWindowNowOmitted(s, windowMs, now) == s

\* revision 2: the window is anchored at Date.now()
applyTimeWindowNow(s, windowMs, now) ==
    IF ~IsFinite(windowMs) THEN s
    ELSE FilterFrom(s, NumMinus(now, windowMs.n))

\* Array.isArray(data) ? data : []
ArrayOrEmpty(data) == IF IsArray(data) THEN data ELSE Array(<<>>)

\* revision 1: what the handler sends once the normalized cache is there
CacheOnlyBody(normalized, config) ==
    LET lim == IF IsFinite(Get(config, "limit")) /\ ToInt(Get(config, "limit").n) > 0
               THEN ToInt(Get(config, "limit").n)
               ELSE 500
        windowed == applyTimeWindow(normalized, Get(config, "windowMs"))
        chosen == IF Len(windowed) < 2
                  THEN SliceLast(normalized, Min(lim, Len(normalized)))
                  ELSE windowed
    IN  downsample(chosen, lim)

\* revision 2: the long-term branch
LongTermBody(cached) == downsample(normalizePoints(cached), 500)

\* whether applyTimeWindow(normalized, cfg.windowMs) gets as far as Date.now()
ReadsClock(cfg) == IsFinite(Get(cfg, "windowMs"))

\* cfg.limit || 99
LimitOr99(cfg) ==
    IF IsFinite(Get(cfg, "limit")) /\ ToInt(Get(cfg, "limit").n) # 0
    THEN ToInt(Get(cfg, "limit").n)
    ELSE 99

\* revision 2: the fallback of a real-time timeframe
FallbackBody(cached, cfg, now) ==
    downsample(applyTimeWindowNow(normalizePoints(cached), Get(cfg, "windowMs"), now),
               Max(1, Min(LimitOr99(cfg), 99)))

\* revision 2: Array.isArray(payload) ? payload : payload.data || payload.result || []
\* for a payload that is an array or an object
RawPoints(payload) ==
    IF IsArray(payload) THEN payload
    ELSE IF Truthy(Get(payload, "data")) THEN Get(payload, "data")
    ELSE IF Truthy(Get(payload, "result")) THEN Get(payload, "result")
    ELSE Array(<<>>)

\* revision 2: what fetchRealTimeSeries returns for a payload; Math.min of a
\* missing cfg.limit is NaN and slice(NaN) keeps the whole series
RealTimeBody(payload, cfg) ==
    LET normalized == normalizePoints(RawPoints(payload))
    IN  IF IsFinite(Get(cfg, "limit"))
        THEN SliceLast(normalized, Min(ToInt(Get(cfg, "limit").n), 99))
        ELSE normalized

(***************************************************************************)
(* The service as a state machine.  A request handler runs to its first    *)
(* await when the request arrives; I/O completions (the file read, the     *)
(* upstream response, its body, the abort timer) and arrivals are          *)
(* macrotasks, which run only when the microtask queue is empty; every     *)
(* promise reaction is a microtask, run in the order queued.               *)
(***************************************************************************)
Job(job, kind, id) == [job |-> job, kind |-> kind, id |-> id]
Handler(r) == [kind |-> "handler", id |-> r]
NormCall(j) == [kind |-> "norm", id |-> j]

\* what fs.readFile delivers and what JSON.parse makes of it
File(read, parses, value) == [read |-> read, parses |-> parses, value |-> value]

DataSet ==
    Array(<<Pair(Number(Num(1665440, 0, 0)), Number(Whole(1800))),
            Pair(Number(Num(1699992, 800000, 0)), Number(Whole(1990))),
            Pair(Number(Num(1699992, 800000, 0)), Number(Whole(1995))),
            Object([timestamp |-> Number(Whole(1700000000)),
                    price_usd |-> Number(Whole(2000))])>>)

FilePool ==
    { File(FALSE, FALSE, Undefined),
      File(TRUE, FALSE, Undefined),
      File(TRUE, TRUE, Object([updated |-> Str(1700000000)])),
      File(TRUE, TRUE, DataSet) }

\* what response.json() delivers: a parse failure, null, an array, { data }
Payload(json, value) == [json |-> json, value |-> value]

PayloadPool ==
    { Payload(FALSE, Undefined),
      Payload(TRUE, Null),
      Payload(TRUE, Array(<<Pair(Number(Whole(1700003000)), Number(Whole(2001))),
                            Pair(Number(Whole(1700003060)), Number(Whole(2002)))>>)),
      Payload(TRUE, Object([data |-> Array(<<Pair(Number(Whole(1700003000)),
                                                  Number(Whole(2003)))>>)])) }

\* the values Date.now() takes: an hour and two days after the last cached sample
NowPool == { Num(1700003, 600000, 0), Num(1700172, 800000, 0) }

QueryPool ==
    { Query(FALSE, ""), Query(TRUE, "1y"), Query(TRUE, "24h"),
      Query(TRUE, "bogus"), Query(TRUE, "constructor") }

NewLoad(w) ==
    [read |-> "reading", content |-> File(FALSE, FALSE, Undefined),
     state |-> "pending", value |-> Undefined, waiters |-> <<w>>]

NewRequest(query) ==
    [tf |-> TimeframeKey(query), pc |-> "sync", load |-> 0, norm |-> 0,
     stale |-> FALSE, upstream |-> "none", timer |-> "unset", io |-> "none",
     payload |-> Undefined, now |-> Whole(0), status |-> 0, body |-> <<>>, error |-> ""]

\* the refusal never sent: the request stays where it was
RefuseDropped(req, code, error) == req

\* every refusal sent as a client error
RefuseAsClientError(req, code, error) ==
    [req EXCEPT !.pc = "done", !.status = 400, !.error = error]

\* res.status(code).json({ error })
Refuse(req, code, error) ==
    [req EXCEPT !.pc = "done", !.status = code, !.error = error]

\* res.json(points)
Send(req, body) == [req EXCEPT !.pc = "done", !.status = 200, !.body = body]

InitServer ==
    /\ NormIdle
    /\ DownIdle
    /\ FallIdle
    /\ WorkerIdle
    /\ revision \in {1, 2}
    /\ endpoint \in (IF revision = 1 THEN {FALSE} ELSE BOOLEAN)
    /\ longTermDataPromise = 0
    /\ normalizedLongTermDataPromise = 0
    /\ loads = <<>>
    /\ norms = <<>>
    /\ reqs = <<>>
    /\ microtasks = <<>>

\* !longTermDataPromise with every call starting a read
SlotEmptyAlways(slot) == TRUE

\* !longTermDataPromise, !normalizedLongTermDataPromise
SlotEmpty(slot) == slot = 0

\* the catch handler leaving the rejected promise in the slot
AfterLoadSettlesKept(slot, failed) == slot

\* the slot cleared on success as well
AfterLoadSettlesCleared(slot, failed) == 0

\* longTermDataPromise after its promise settles: the catch handler, run on
\* failure only, sets it to null
AfterLoadSettles(slot, failed) == IF failed THEN 0 ELSE slot

\* normalizedLongTermDataPromise after its promise settles
AfterNormalizedSettles(slot, failed) == IF failed THEN 0 ELSE slot

\* the promise a call of loadLongTermData awaits
AttemptFor ==
    IF SlotEmpty(longTermDataPromise) THEN Len(loads) + 1 ELSE longTermDataPromise

Rejected(k) == k \in DOMAIN loads /\ loads[k].state = "rejected"

\* loadLongTermData() up to its await, called by w with jobs queued already
loadLongTermData(w, queue) ==
    IF SlotEmpty(longTermDataPromise)
    THEN /\ loads' = Append(loads, NewLoad(w))
         /\ longTermDataPromise' = Len(loads) + 1
         /\ microtasks' = queue
    ELSE /\ longTermDataPromise' = longTermDataPromise
         /\ IF loads[longTermDataPromise].state = "pending"
            THEN /\ loads' = [loads EXCEPT ![longTermDataPromise].waiters = Append(@, w)]
                 /\ microtasks' = queue
            ELSE /\ loads' = loads
                 /\ microtasks' = Append(queue, Job("loadResume", w.kind, w.id))

\* loadNormalizedLongTermData() and the handler's await of it (revision 1)
loadNormalizedLongTermData(r, req) ==
    IF SlotEmpty(normalizedLongTermDataPromise)
    THEN /\ loadLongTermData(NormCall(Len(norms) + 1), <<>>)
         /\ norms' = Append(norms, [load |-> AttemptFor, state |-> "pending",
                                    value |-> <<>>, waiters |-> <<r>>])
         /\ normalizedLongTermDataPromise' = Len(norms) + 1
         /\ reqs' = Append(reqs, [req EXCEPT !.pc = "loading", !.norm = Len(norms) + 1,
                                             !.load = AttemptFor,
                                             !.stale = Rejected(AttemptFor)])
    ELSE LET j == normalizedLongTermDataPromise
         IN  /\ UNCHANGED <<longTermDataPromise, loads, normalizedLongTermDataPromise>>
             /\ norms' = IF norms[j].state = "pending"
                         THEN [norms EXCEPT ![j].waiters = Append(@, r)]
                         ELSE norms
             /\ microtasks' = IF norms[j].state = "pending"
                              THEN <<>>
                              ELSE <<Job("handlerResume", "handler", r)>>
             /\ reqs' = Append(reqs, [req EXCEPT !.pc = "loading", !.norm = j,
                                                 !.load = norms[j].load,
                                                 !.stale = norms[j].state = "rejected"])

\* revision 1: a request arrives and its handler runs to its await
ArriveCacheOnly(query) ==
    /\ revision = 1
    /\ microtasks = <<>>
    /\ Len(reqs) < MaxReq
    /\ LET req == NewRequest(query)
       IN  IF ~Truthy(Lookup(TIMEFRAME_CONFIG, req.tf))
           THEN /\ reqs' = Append(reqs, Refuse(req, 400, "Unsupported timeframe"))
                /\ UNCHANGED <<longTermDataPromise, normalizedLongTermDataPromise,
                               loads, norms, microtasks>>
           ELSE loadNormalizedLongTermData(Len(reqs) + 1, req)
    /\ UNCHANGED <<revision, endpoint, normVars, downVars, fallVars, swVars>>

\* fetchRealTimeSeries up to its await of fetchImpl
fetchRealTimeSeries(r, req) ==
    IF ~endpoint \/ ~Truthy(Lookup(REAL_TIME_TIMEFRAMES, req.tf))
    THEN /\ reqs' = Append(reqs, [req EXCEPT !.pc = "failing",
                                   !.upstream = IF ~endpoint THEN "unconfigured"
                                                ELSE "unsupported"])
         /\ microtasks' = <<Job("realTimeFailed", "handler", r)>>
    ELSE /\ reqs' = Append(reqs, [req EXCEPT !.pc = "fetching", !.upstream = "pending",
                                             !.timer = "armed"])
         /\ microtasks' = <<>>

\* revision 2: a request arrives and its handler runs to its await
ArriveRealTime(query) ==
    /\ revision = 2
    /\ microtasks = <<>>
    /\ Len(reqs) < MaxReq
    /\ LET req == NewRequest(query)
           r == Len(reqs) + 1
       IN  IF req.tf \in LONG_TERM_TIMEFRAMES
           THEN /\ loadLongTermData(Handler(r), <<>>)
                /\ reqs' = Append(reqs, [req EXCEPT !.pc = "loading", !.load = AttemptFor,
                                                    !.stale = Rejected(AttemptFor)])
           ELSE IF Truthy(Lookup(REAL_TIME_TIMEFRAMES, req.tf))
           THEN /\ fetchRealTimeSeries(r, req)
                /\ UNCHANGED <<longTermDataPromise, loads>>
           ELSE /\ reqs' = Append(reqs, Refuse(req, 400, "Unsupported timeframe"))
                /\ UNCHANGED <<longTermDataPromise, loads, microtasks>>
    /\ UNCHANGED <<revision, endpoint, normalizedLongTermDataPromise, norms,
                   normVars, downVars, fallVars, swVars>>

\* fs.readFile settles
ReadCompletes(k, file) ==
    /\ microtasks = <<>>
    /\ k \in DOMAIN loads
    /\ loads[k].read = "reading"
    /\ loads' = [loads EXCEPT ![k].read = "settled", ![k].content = file]
    /\ microtasks' = <<Job("parse", "read", k)>>
    /\ UNCHANGED <<revision, endpoint, longTermDataPromise, normalizedLongTermDataPromise,
                   norms, reqs, normVars, downVars, fallVars, swVars>>

Running(job) == microtasks # <<>> /\ Head(microtasks).job = job

\* .then(raw => JSON.parse(raw)): its promise settles, the catch reaction is queued
ParseJob ==
    /\ Running("parse")
    /\ microtasks' = Append(Tail(microtasks), Job("loadCatch", "read", Head(microtasks).id))
    /\ UNCHANGED <<revision, endpoint, longTermDataPromise, normalizedLongTermDataPromise,
                   loads, norms, reqs, normVars, downVars, fallVars, swVars>>

\* .catch(err => { longTermDataPromise = null; throw ... }): the promise held in
\* longTermDataPromise settles and the calls awaiting it are queued
LoadCatchJob ==
    /\ Running("loadCatch")
    /\ LET k == Head(microtasks).id
           failed == ~(loads[k].content.read /\ loads[k].content.parses)
       IN  /\ longTermDataPromise' = AfterLoadSettles(longTermDataPromise, failed)
           /\ loads' = [loads EXCEPT
                  ![k].content = File(FALSE, FALSE, Undefined),
                  ![k].state = IF failed THEN "rejected" ELSE "fulfilled",
                  ![k].value = IF failed THEN Undefined ELSE loads[k].content.value,
                  ![k].waiters = <<>>]
           /\ microtasks' = Tail(microtasks) \o
                  [i \in DOMAIN loads[k].waiters |->
                      Job("loadResume", loads[k].waiters[i].kind, loads[k].waiters[i].id)]
    /\ UNCHANGED <<revision, endpoint, normalizedLongTermDataPromise, norms, reqs,
                   normVars, downVars, fallVars, swVars>>

\* loadLongTermData() resumes after its await and its own promise settles
LoadResumeJob ==
    /\ Running("loadResume")
    /\ microtasks' = Append(Tail(microtasks),
            IF Head(microtasks).kind = "norm"
            THEN Job("normThen", "norm", Head(microtasks).id)
            ELSE Job("handlerResume", "handler", Head(microtasks).id))
    /\ UNCHANGED <<revision, endpoint, longTermDataPromise, normalizedLongTermDataPromise,
                   loads, norms, reqs, normVars, downVars, fallVars, swVars>>

\* .then(data => normalizePoints(data))
NormThenJob ==
    /\ Running("normThen")
    /\ microtasks' = Append(Tail(microtasks), Job("normCatch", "norm", Head(microtasks).id))
    /\ UNCHANGED <<revision, endpoint, longTermDataPromise, normalizedLongTermDataPromise,
                   loads, norms, reqs, normVars, downVars, fallVars, swVars>>

\* .catch(err => { normalizedLongTermDataPromise = null; throw err; })
NormCatchJob ==
    /\ Running("normCatch")
    /\ LET j == Head(microtasks).id
           k == norms[j].load
           failed == loads[k].state = "rejected"
       IN  /\ normalizedLongTermDataPromise' =
                  AfterNormalizedSettles(normalizedLongTermDataPromise, failed)
           /\ norms' = [norms EXCEPT
                  ![j].state = IF failed THEN "rejected" ELSE "fulfilled",
                  ![j].value = IF failed THEN <<>>
                               ELSE normalizePoints(ArrayOrEmpty(loads[k].value)),
                  ![j].waiters = <<>>]
           /\ microtasks' = Tail(microtasks) \o
                  [i \in DOMAIN norms[j].waiters |->
                      Job("handlerResume", "handler", norms[j].waiters[i])]
    /\ UNCHANGED <<revision, endpoint, longTermDataPromise, loads, reqs,
                   normVars, downVars, fallVars, swVars>>

\* revision 1: the handler resumes after await loadNormalizedLongTermData()
ResumeCacheOnlyHandler ==
    /\ Running("handlerResume")
    /\ revision = 1
    /\ LET r == Head(microtasks).id
           j == reqs[r].norm
       IN  reqs' = [reqs EXCEPT ![r] =
               IF norms[j].state = "fulfilled"
               THEN Send(@, CacheOnlyBody(norms[j].value, Lookup(TIMEFRAME_CONFIG, @.tf)))
               ELSE Refuse(@, 502, "Failed to load chart data")]
    /\ microtasks' = Tail(microtasks)
    /\ UNCHANGED <<revision, endpoint, longTermDataPromise, normalizedLongTermDataPromise,
                   loads, norms, normVars, downVars, fallVars, swVars>>

\* revision 2: the handler resumes after await loadLongTermData()
ResumeHandler(now) ==
    /\ Running("handlerResume")
    /\ revision = 2
    /\ LET r == Head(microtasks).id
           k == reqs[r].load
           cached == ArrayOrEmpty(loads[k].value)
           cfg == Lookup(REAL_TIME_TIMEFRAMES, reqs[r].tf)
       IN  reqs' = [reqs EXCEPT ![r] =
               IF loads[k].state # "fulfilled"
               THEN Refuse(@, 502, "Failed to load chart data")
               ELSE IF @.tf \in LONG_TERM_TIMEFRAMES
               THEN Send(@, LongTermBody(cached))
               ELSE Send([@ EXCEPT !.now = IF ReadsClock(cfg) THEN now ELSE @],
                         FallbackBody(cached, cfg, now))]
    /\ microtasks' = Tail(microtasks)
    /\ UNCHANGED <<revision, endpoint, longTermDataPromise, normalizedLongTermDataPromise,
                   loads, norms, normVars, downVars, fallVars, swVars>>

\* the upstream answers with a status line: response.ok or not
ResponseArrives(r, ok) ==
    /\ microtasks = <<>>
    /\ r \in DOMAIN reqs
    /\ reqs[r].pc = "fetching"
    /\ reqs' = [reqs EXCEPT ![r].io = IF ok THEN "ok" ELSE "notOk"]
    /\ microtasks' = <<Job("fetchContinue", "handler", r)>>
    /\ UNCHANGED <<revision, endpoint, longTermDataPromise, normalizedLongTermDataPromise,
                   loads, norms, normVars, downVars, fallVars, swVars>>

\* fetchImpl rejects: the upstream cannot be reached
FetchRejects(r) ==
    /\ microtasks = <<>>
    /\ r \in DOMAIN reqs
    /\ reqs[r].pc = "fetching"
    /\ reqs' = [reqs EXCEPT ![r].io = "networkError"]
    /\ microtasks' = <<Job("fetchContinue", "handler", r)>>
    /\ UNCHANGED <<revision, endpoint, longTermDataPromise, normalizedLongTermDataPromise,
                   loads, norms, normVars, downVars, fallVars, swVars>>

\* response.json() settles
BodyArrives(r, payload) ==
    /\ microtasks = <<>>
    /\ r \in DOMAIN reqs
    /\ reqs[r].pc = "reading"
    /\ reqs' = [reqs EXCEPT ![r].io = "body", ![r].payload = payload]
    /\ microtasks' = <<Job("fetchContinue", "handler", r)>>
    /\ UNCHANGED <<revision, endpoint, longTermDataPromise, normalizedLongTermDataPromise,
                   loads, norms, normVars, downVars, fallVars, swVars>>

\* setTimeout(() => controller.abort(), 10_000) fires: the pending fetch or body
\* read rejects
TimerFires(r) ==
    /\ microtasks = <<>>
    /\ r \in DOMAIN reqs
    /\ reqs[r].timer = "armed"
    /\ reqs[r].pc \in {"fetching", "reading"}
    /\ reqs' = [reqs EXCEPT ![r].timer = "fired", ![r].io = "aborted"]
    /\ microtasks' = <<Job("fetchContinue", "handler", r)>>
    /\ UNCHANGED <<revision, endpoint, longTermDataPromise, normalizedLongTermDataPromise,
                   loads, norms, normVars, downVars, fallVars, swVars>>

\* the finally block left out: the timer stays armed
ClearTimeoutOmitted(timer) == timer

\* clearTimeout(timeout) in the finally block
ClearTimeout(timer) == IF timer = "armed" THEN "cleared" ELSE timer

\* fetchRealTimeSeries leaves by a throw
Throw(req, why) ==
    [req EXCEPT !.pc = "failing", !.upstream = why, !.io = "none",
                !.payload = Undefined, !.timer = ClearTimeout(@)]

\* fetchRealTimeSeries resumes after await fetchImpl(...) or await response.json()
FetchContinueJob ==
    /\ Running("fetchContinue")
    /\ LET r == Head(microtasks).id
           req == reqs[r]
           cfg == Lookup(REAL_TIME_TIMEFRAMES, req.tf)
       IN  IF req.io = "ok"
           THEN /\ reqs' = [reqs EXCEPT ![r].pc = "reading", ![r].io = "none"]
                /\ microtasks' = Tail(microtasks)
           ELSE IF req.io = "body" /\ req.payload.json /\ req.payload.value.t # "null"
           THEN /\ reqs' = [reqs EXCEPT ![r] =
                       [@ EXCEPT !.pc = "succeeding", !.upstream = "ok", !.io = "none",
                                 !.timer = ClearTimeout(@), !.payload = Undefined,
                                 !.body = RealTimeBody(req.payload.value, cfg)]]
                /\ microtasks' = Append(Tail(microtasks), Job("realTimeDone", "handler", r))
           ELSE /\ reqs' = [reqs EXCEPT ![r] =
                       Throw(@, CASE req.io = "notOk" -> "httpError"
                                  [] req.io = "networkError" -> "networkError"
                                  [] req.io = "aborted" -> "timeout"
                                  [] OTHER -> "malformed")]
                /\ microtasks' = Append(Tail(microtasks), Job("realTimeFailed", "handler", r))
    /\ UNCHANGED <<revision, endpoint, longTermDataPromise, normalizedLongTermDataPromise,
                   loads, norms, normVars, downVars, fallVars, swVars>>

\* the handler resumes after await fetchRealTimeSeries(timeframe): res.json(points)
RealTimeDoneJob ==
    /\ Running("realTimeDone")
    /\ reqs' = [reqs EXCEPT ![Head(microtasks).id] = Send(@, @.body)]
    /\ microtasks' = Tail(microtasks)
    /\ UNCHANGED <<revision, endpoint, longTermDataPromise, normalizedLongTermDataPromise,
                   loads, norms, normVars, downVars, fallVars, swVars>>

\* the upstream failure reaching the outer catch: no inner try / catch
SurfaceUpstreamError(r) ==
    /\ reqs' = [reqs EXCEPT ![r] = Refuse(@, 502, "Failed to load chart data")]
    /\ microtasks' = Tail(microtasks)
    /\ UNCHANGED <<longTermDataPromise, loads>>

\* catch (realTimeErr): the error is logged and dropped, the handler calls
\* loadLongTermData() and awaits it
FallbackToCache(r) ==
    /\ loadLongTermData(Handler(r), Tail(microtasks))
    /\ reqs' = [reqs EXCEPT ![r].pc = "loading", ![r].upstream = "failed",
                            ![r].load = AttemptFor, ![r].stale = Rejected(AttemptFor)]

\* the handler resumes with the rejection of fetchRealTimeSeries(timeframe)
RealTimeFailedJob ==
    /\ Running("realTimeFailed")
    /\ FallbackToCache(Head(microtasks).id)
    /\ UNCHANGED <<revision, endpoint, normalizedLongTermDataPromise, norms,
                   normVars, downVars, fallVars, swVars>>

NextServer ==
    \/ \E query \in QueryPool : ArriveCacheOnly(query)
    \/ \E query \in QueryPool : ArriveRealTime(query)
    \/ \E k \in 1..MaxReq, file \in FilePool : ReadCompletes(k, file)
    \/ ParseJob
    \/ LoadCatchJob
    \/ LoadResumeJob
    \/ NormThenJob
    \/ NormCatchJob
    \/ ResumeCacheOnlyHandler
    \/ \E now \in NowPool : ResumeHandler(now)
    \/ \E r \in 1..MaxReq, ok \in BOOLEAN : ResponseArrives(r, ok)
    \/ \E r \in 1..MaxReq : FetchRejects(r)
    \/ \E r \in 1..MaxReq, payload \in PayloadPool : BodyArrives(r, payload)
    \/ \E r \in 1..MaxReq : TimerFires(r)
    \/ FetchContinueJob
    \/ RealTimeDoneJob
    \/ RealTimeFailedJob

SpecServer == InitServer /\ [][NextServer]_vars

\* a promise reaction at the head of the microtask queue runs
PromiseJob ==
    \/ ParseJob
    \/ LoadCatchJob
    \/ LoadResumeJob
    \/ NormThenJob
    \/ NormCatchJob
    \/ ResumeCacheOnlyHandler
    \/ \E now \in NowPool : ResumeHandler(now)
    \/ FetchContinueJob
    \/ RealTimeDoneJob
    \/ RealTimeFailedJob

\* the service with an event loop that runs every queued promise reaction, a
\* file read that settles, and an abort timer that fires unless it is cleared.
\* The first condition is WF_vars(PromiseJob) written out, a promise job being
\* enabled exactly when the microtask queue is not empty.
SpecServerFair ==
    /\ SpecServer
    /\ ([]<>(microtasks = <<>>)) \/ ([]<><<PromiseJob>>_vars)
    /\ \A k \in 1..MaxReq : WF_vars(\E file \in FilePool : ReadCompletes(k, file))
    /\ \A r \in 1..MaxReq : WF_vars(TimerFires(r))

(***************************************************************************)
(* Properties of the cache loader and of the request handler.              *)
(***************************************************************************)
ReadsInFlight == { k \in DOMAIN loads : loads[k].read = "reading" }

\* no promise job is queued: the state a request or an I/O completion finds
Quiescent == microtasks = <<>>

AwaitsCache(r) == reqs[r].load # 0

\* C6: single-flight cache load: at most one read of the backing file is in
\* flight, a read is started only by a caller that finds the slot empty (so only
\* after every earlier read failed), and every caller waiting for a pending load
\* waits for the one promise held in the memo slot.
C6_SingleFlight ==
    /\ Cardinality(ReadsInFlight) <= 1
    /\ \A k \in DOMAIN loads : k > 1 => loads[k - 1].state = "rejected"
    /\ \A r \in DOMAIN reqs :
        (reqs[r].pc = "loading" /\ loads[reqs[r].load].state = "pending")
        => reqs[r].load = longTermDataPromise

C6_Witness ==
    /\ Len(reqs) = 2
    /\ reqs[1].pc = "loading"
    /\ reqs[2].pc = "loading"
    /\ reqs[1].load = reqs[2].load
    /\ ReadsInFlight = {reqs[1].load}
    /\ reqs[2].upstream = "failed"

\* C7: a failed load reaches every caller awaiting it (502), no memo slot holds
\* a rejected promise once the failure has been handled, and no call ever
\* awaits a promise that had already failed: the call after a failure starts a
\* fresh read.
C7_FailureClearsMemo ==
    /\ Quiescent =>
        /\ longTermDataPromise # 0 => loads[longTermDataPromise].state # "rejected"
        /\ normalizedLongTermDataPromise # 0
            => norms[normalizedLongTermDataPromise].state # "rejected"
        /\ \A r \in DOMAIN reqs :
            (AwaitsCache(r) /\ loads[reqs[r].load].state = "rejected")
            => reqs[r].pc = "done"
    /\ \A r \in DOMAIN reqs :
        /\ ~reqs[r].stale
        /\ (reqs[r].pc = "done" /\ AwaitsCache(r)
                /\ loads[reqs[r].load].state = "rejected")
            => (reqs[r].status = 502 /\ reqs[r].error = "Failed to load chart data")

C7_Witness ==
    /\ Len(reqs) = 2
    /\ Len(loads) = 2
    /\ loads[1].state = "rejected"
    /\ reqs[1].load = 1
    /\ reqs[1].status = 502
    /\ reqs[2].load = 2
    /\ reqs[2].pc = "loading"
    /\ longTermDataPromise = 2
    /\ ReadsInFlight = {2}
    /\ revision = 1
    /\ normalizedLongTermDataPromise = 2

\* C8: a load that succeeded is the last read ever started and stays in its
\* memo slot, whatever requests and upstream failures follow, and a parsed
\* value that is not a collection is served as the empty collection.
C8_SuccessIsPermanent ==
    /\ \A k \in DOMAIN loads :
        loads[k].state = "fulfilled" => (k = Len(loads) /\ longTermDataPromise = k)
    /\ \A j \in DOMAIN norms :
        norms[j].state = "fulfilled"
        => (j = Len(norms) /\ normalizedLongTermDataPromise = j)
    /\ \A r \in DOMAIN reqs :
        (reqs[r].status = 200 /\ AwaitsCache(r) /\ ~IsArray(loads[reqs[r].load].value))
        => reqs[r].body = <<>>

C8_Witness ==
    /\ revision = 2
    /\ Len(reqs) = 2
    /\ Len(loads) = 1
    /\ loads[1].state = "fulfilled"
    /\ loads[1].value.t = "object"
    /\ reqs[1].tf \in LONG_TERM_TIMEFRAMES
    /\ reqs[1].status = 200
    /\ reqs[2].upstream = "failed"
    /\ reqs[2].load = 1
    /\ reqs[2].status = 200
    /\ reqs[2].body = <<>>

\* the timeframe keys the running revision configures
ConfiguredTimeframes ==
    IF revision = 1 THEN DOMAIN TIMEFRAME_CONFIG
    ELSE LONG_TERM_TIMEFRAMES \cup DOMAIN REAL_TIME_TIMEFRAMES

\* C9: a request whose timeframe key is not a configured timeframe is answered
\* 400 { error: "Unsupported timeframe" } and starts neither a cache read nor an
\* upstream fetch.
C9_UnknownTimeframeRefused ==
    \A r \in DOMAIN reqs :
        reqs[r].tf \notin ConfiguredTimeframes
        => /\ reqs[r].pc = "done"
           /\ reqs[r].status = 400
           /\ reqs[r].error = "Unsupported timeframe"
           /\ reqs[r].load = 0
           /\ reqs[r].upstream = "none"

UpstreamFailed(r) == reqs[r].upstream \notin {"none", "pending", "ok"}

\* C10: for a real-time timeframe every failure of fetchRealTimeSeries leads to
\* the cache fallback and is never surfaced: the request is answered only after
\* the cache load, with 200 and the windowed, downsampled cache when the load
\* succeeded and with 502 only when the load failed.
C10_UpstreamFailureFallsBack ==
    \A r \in DOMAIN reqs :
        (reqs[r].tf \in DOMAIN REAL_TIME_TIMEFRAMES /\ revision = 2 /\ UpstreamFailed(r))
        => /\ reqs[r].pc # "done" => reqs[r].status = 0
           /\ reqs[r].pc = "done" =>
               /\ AwaitsCache(r)
               /\ reqs[r].status \in {200, 502}
               /\ reqs[r].status = 502 <=> loads[reqs[r].load].state = "rejected"
               /\ reqs[r].status = 200 =>
                    reqs[r].body =
                        FallbackBody(ArrayOrEmpty(loads[reqs[r].load].value),
                                     REAL_TIME_TIMEFRAMES[reqs[r].tf], reqs[r].now)

C10_Witness ==
    /\ revision = 2
    /\ Len(reqs) = 2
    /\ reqs[1].tf = "24h"
    /\ reqs[1].upstream = "failed"
    /\ reqs[1].timer = "fired"
    /\ reqs[1].status = 200
    /\ Len(reqs[1].body) = 2
    /\ reqs[2].tf = "24h"
    /\ reqs[2].pc = "failing"
    /\ reqs[2].upstream = "malformed"

\* the cache load a request depends on has failed
CacheLoadFailed(r) == AwaitsCache(r) /\ loads[reqs[r].load].state = "rejected"

\* C11: a request with a configured timeframe is answered 502 { error }
\* exactly when the cache load it awaited failed; it is never answered 400, and
\* a real-time request whose upstream call succeeded is answered 200.
C11_ServerErrorIffCacheFails ==
    \A r \in DOMAIN reqs :
        (reqs[r].tf \in ConfiguredTimeframes /\ reqs[r].pc = "done")
        => /\ reqs[r].status \in {200, 502}
           /\ reqs[r].status = 502 <=> CacheLoadFailed(r)
           /\ reqs[r].status = 502 => reqs[r].error = "Failed to load chart data"
           /\ reqs[r].upstream = "ok" => (reqs[r].status = 200 /\ ~AwaitsCache(r))

C11_Witness ==
    /\ revision = 2
    /\ Len(reqs) = 2
    /\ reqs[1].tf = "24h"
    /\ reqs[1].upstream = "failed"
    /\ reqs[1].status = 502
    /\ reqs[2].tf = "24h"
    /\ reqs[2].upstream = "ok"
    /\ reqs[2].status = 200
    /\ Len(loads) = 1

InFlight(r) == reqs[r].pc \in {"fetching", "reading"}

\* C18: while the upstream call is in flight its 10-second timer is armed; when
\* the timer fires the call is aborted and fetchRealTimeSeries fails, so the
\* request is answered from the cache or with 502; on every exit the timer is
\* cleared or has fired, and it never fires afterwards; and a request starts
\* an upstream fetch only when it arrives, never a second time.
C18_BoundedSingleAttempt ==
    /\ [](\A r \in DOMAIN reqs :
            /\ InFlight(r) => reqs[r].timer \in {"armed", "fired"}
            /\ ~InFlight(r) => reqs[r].timer # "armed"
            /\ reqs[r].timer = "fired" =>
                  /\ reqs[r].upstream \notin {"ok", "none"}
                  /\ InFlight(r) => reqs[r].io = "aborted"
                  /\ reqs[r].pc = "done" => AwaitsCache(r)
            /\ reqs[r].upstream = "ok" => reqs[r].timer = "cleared")
    /\ [][\A r \in DOMAIN reqs :
            /\ reqs'[r].pc = "fetching" => reqs[r].pc = "fetching"
            /\ reqs'[r].upstream = "pending" => reqs[r].upstream = "pending"
            /\ reqs[r].timer \in {"cleared", "fired"} => reqs'[r].timer = reqs[r].timer
            /\ (reqs[r].timer = "armed" /\ reqs'[r].timer = "fired")
                  => (InFlight(r) /\ reqs'[r].io = "aborted")]_vars

C18_Witness ==
    /\ Len(reqs) = 2
    /\ reqs[1].pc = "done"
    /\ reqs[1].timer = "fired"
    /\ reqs[1].status = 200
    /\ reqs[2].pc = "done"
    /\ reqs[2].timer = "cleared"
    /\ reqs[2].upstream = "ok"

Answered(r) ==
    /\ r \in DOMAIN reqs
    /\ reqs[r].pc = "done"
    /\ reqs[r].status \in {200, 400, 502}

\* C20: every request that arrived is eventually answered, with status 200,
\* 400 or 502, whatever the other requests do and whichever loads and upstream
\* calls fail; a request that is not answered has sent nothing, and an answer
\* once sent is never changed or sent again.
C20_EveryRequestAnsweredOnce ==
    /\ \A r \in 1..MaxReq : (r \in DOMAIN reqs) ~> Answered(r)
    /\ [](\A r \in DOMAIN reqs :
            /\ reqs[r].pc = "done" => reqs[r].status \in {200, 400, 502}
            /\ reqs[r].pc # "done" =>
                  (reqs[r].status = 0 /\ reqs[r].error = ""))
    /\ [][\A r \in DOMAIN reqs : reqs[r].pc = "done" => reqs'[r] = reqs[r]]_vars

C20_Witness ==
    /\ Len(reqs) = 2
    /\ Answered(1)
    /\ reqs[1].status = 502
    /\ Answered(2)
    /\ reqs[2].status = 200
    /\ reqs[2].load = reqs[1].load + 1

\* the normalized cache a request was answered from
NormalizedFor(r) == normalizePoints(ArrayOrEmpty(loads[reqs[r].load].value))

\* the samples of s not older than windowMs before the latest sample of s
InWindow(s, windowMs) ==
    LET keep == { i \in DOMAIN s :
                    ~NumLess(s[i].timestamp, NumMinus(s[Len(s)].timestamp, windowMs.n)) }
    IN  [k \in 1..Cardinality(keep) |->
            s[CHOOSE i \in keep : Cardinality({ j \in keep : j < i }) = k - 1]]

\* the answer of a cache-backed timeframe
WindowedAnswer(s, windowMs, lim) ==
    IF ~IsFinite(windowMs) THEN downsample(s, lim)
    ELSE IF Len(InWindow(s, windowMs)) < 2
    THEN downsample(SubSeq(s, Len(s) - Min(lim, Len(s)) + 1, Len(s)), lim)
    ELSE downsample(InWindow(s, windowMs), lim)

\* C17: a 200 answer for a cache-backed timeframe is the downsampling to the
\* timeframe's limit of the normalized samples inside the window that ends at
\* the latest cached sample (365 days for 1y), of the last min(limit, length)
\* samples when fewer than 2 are inside, and of the whole series for the
\* unbounded timeframes.
C17_WindowAnchoredAtLatest ==
    \A r \in DOMAIN reqs :
        (reqs[r].pc = "done" /\ reqs[r].status = 200
            /\ reqs[r].tf \in LONG_TERM_TIMEFRAMES)
        => reqs[r].body =
              WindowedAnswer(NormalizedFor(r),
                             Get(TIMEFRAME_CONFIG[reqs[r].tf], "windowMs"),
                             ToInt(Get(TIMEFRAME_CONFIG[reqs[r].tf], "limit").n))

(***************************************************************************)
(* The cache fallback of timeframe=24h on a cache of any size: the upstream *)
(* is unreachable, the cache load has succeeded, and the handler answers    *)
(* with the windowed, downsampled cache.  The cache holds one sample every  *)
(* five minutes, the latest at most an hour old.                            *)
(***************************************************************************)
\* the i-th five-minute tick, in ms: tick 200 is 1.7e12
Tick(i) == Num(1699940 + (3 * i) \div 10, ((3 * i) % 10) * 100000, 0)

Shapes == {"rising", "marked"}

\* the price of the i-th sample: rising throughout, or level with the lowest
\* price at the second sample and the highest at the fourth
PriceAt(shape, i) ==
    IF shape = "rising" THEN i
    ELSE IF i = 2 THEN 10
    ELSE IF i = 4 THEN 90
    ELSE 50

CacheOf(n, shape) ==
    Array([i \in 1..n |-> Pair(Number(Tick(i)), Number(Whole(PriceAt(shape, i))))])

\* Date.now() when the fallback runs: 1 h, 20 h and 2 d after tick 200
FallbackNowPool == NowPool \cup { Num(1700072, 0, 0) }

InitFallback ==
    /\ NormIdle
    /\ DownIdle
    /\ ServerIdle
    /\ WorkerIdle
    /\ \E n \in 0..MaxCached, shape \in Shapes : cacheFile = CacheOf(n, shape)
    /\ clock = Whole(0)
    /\ answer = <<>>
    /\ fphase = "cached"

\* catch (realTimeErr) { ... points = downsample(windowed, limit) }; res.json(points)
Fallback(now) ==
    /\ fphase = "cached"
    /\ clock' = now
    /\ answer' = FallbackBody(cacheFile, REAL_TIME_TIMEFRAMES["24h"], now)
    /\ fphase' = "answered"
    /\ UNCHANGED <<cacheFile, normVars, downVars, serverVars, swVars>>

NextFallback == \E now \in FallbackNowPool : Fallback(now)

SpecFallback == InitFallback /\ [][NextFallback]_vars

(***************************************************************************)
(* Properties of the cache fallback.                                       *)
(***************************************************************************)
Limit24h == ToInt(Get(REAL_TIME_TIMEFRAMES["24h"], "limit").n)
Window24h == Get(REAL_TIME_TIMEFRAMES["24h"], "windowMs").n

\* every sample of the answer is a sample of the normalized cache, no older
\* than 24 hours before Date.now()
FromCacheInWindow ==
    \A i \in DOMAIN answer :
        /\ \E j \in DOMAIN cacheFile.elems :
              answer[i] = normalizePoint(cacheFile.elems[j])
        /\ ~NumLess(answer[i].timestamp, NumMinus(clock, Window24h))

\* C12 as stated: the 24h fallback answers with cached samples of the last 24
\* hours, at most as many as the real-time 24h point limit.
C12_FallbackWithinLimit ==
    fphase = "answered" => (FromCacheInWindow /\ Len(answer) <= Limit24h)

\* C12: the 24h fallback answers with cached samples no older than 24 hours
\* before the wall-clock time, at most three more than the 24h point limit.
C12_FallbackWithinLimitPlus3 ==
    fphase = "answered" => (FromCacheInWindow /\ Len(answer) <= Limit24h + 3)

C12_Witness ==
    /\ fphase = "answered"
    /\ Len(cacheFile.elems) = 2 * Limit24h
    /\ Len(answer) = Limit24h + 3

(***************************************************************************)
(* Every place a series is answered from: a run of the downsampler, a run   *)
(* of the service, or a run of the 24h fallback over a large cache.         *)
(***************************************************************************)
InitAnswers == InitDownsample \/ InitServer \/ InitFallback

NextAnswers == NextDownsample \/ NextServer \/ NextFallback

SpecAnswers == InitAnswers /\ [][NextAnswers]_vars

\* the position in s of a sample of s
IndexIn(s, x) == CHOOSE k \in DOMAIN s : s[k] = x

\* C19: for a strictly ascending series and a limit >= 1 the result of
\* downsample holds only samples of the series, none of them twice, in the
\* order of the series and strictly ascending by timestamp; and every series
\* sent with status 200 is strictly ascending by timestamp.
C19_DownsampleIsSubsequence ==
    /\ dphase = "done" =>
          /\ \A i \in DOMAIN sampled : Contains(points, sampled[i])
          /\ \A i, j \in DOMAIN sampled :
                i < j => /\ sampled[i] # sampled[j]
                         /\ IndexIn(points, sampled[i]) < IndexIn(points, sampled[j])
          /\ StrictlyAscending(sampled)
    /\ \A r \in DOMAIN reqs : reqs[r].status = 200 => StrictlyAscending(reqs[r].body)
    /\ fphase = "answered" => StrictlyAscending(answer)

\* the last sample is the lowest and the first, a strided one, the highest
C19_Witness ==
    /\ dphase = "done"
    /\ Len(points) > limit
    /\ Len(sampled) < Len(points)
    /\ \A i \in 1..(Len(points) - 1) :
          NumLess(points[Len(points)].price_usd, points[i].price_usd)
    /\ IsMaxPrice(points[1].price_usd, points)
    /\ Contains(sampled, points[Len(points)])

(***************************************************************************)
(* The service worker: the gold-app-v1 script and the gold-app-v3 script.   *)
(* Its install, activate and fetch listeners run to their first await when  *)
(* the event is dispatched; the network and the cache storage answer later, *)
(* in any order across the fetch events in progress.                        *)
(***************************************************************************)
CACHE == IF script = 1 THEN "gold-app-v1" ELSE "gold-app-v3"

\* a cache an earlier deploy left behind
OldCache == "gold-app-v0"

ASSETS ==
    {"/", "/index.html", "/manifest.json", "/favicon.svg", "/icons/icon-192.png",
     "/icons/icon-512.png", "/icons/maskable-512.png", "/icons/apple-touch-icon.png"}
    \cup (IF script = 1 THEN {}
          ELSE {"/assets/coin_photo_1000x500.webp", "/assets/coin_photo_1000x500.png"})

Response(status, body) == [status |-> status, body |-> body]
NoResponse == Response(0, "none")
\* what the page gets when respondWith is given a rejection or undefined
NetworkError == Response(0, "networkError")

\* what the network answers for a URL when it can be reached
ServerResponse(url) ==
    IF url \in {"/", "/index.html"} THEN Response(200, "shell")
    ELSE IF url = "/api/chart-data" THEN Response(200, "chart")
    ELSE IF url = "/missing" THEN Response(404, "notFound")
    ELSE IF url \in ASSETS THEN Response(200, "asset")
    ELSE Response(200, "thirdParty")

SelfOrigin == "https://gold.example"

Request(url, origin, hostname, mode) ==
    [url |-> url, origin |-> origin, hostname |-> hostname, mode |-> mode]

RequestPool ==
    { Request("/", SelfOrigin, "gold.example", "navigate"),
      Request("/missing", SelfOrigin, "gold.example", "navigate"),
      Request("/api/chart-data", SelfOrigin, "gold.example", "cors"),
      Request("/favicon.svg", SelfOrigin, "gold.example", "no-cors"),
      Request("https://fonts.example/font.css", "https://fonts.example",
              "fonts.example", "no-cors"),
      Request("https://api.gold-api.com/price/XAU", "https://api.gold-api.com",
              "api.gold-api.com", "cors") }

\* url.hostname.includes("gold-api.com")
IncludesGoldApi(hostname) == hostname \in {"gold-api.com", "api.gold-api.com"}

NoPut == [state |-> "none", key |-> "", doc |-> NoResponse]
Put(key, doc) == [state |-> "pending", key |-> key, doc |-> doc]

\* caches.match(key): the caches are searched in the order they were created
Match(key) ==
    IF OldCache \in DOMAIN cacheStorage /\ key \in DOMAIN cacheStorage[OldCache]
    THEN cacheStorage[OldCache][key]
    ELSE IF CACHE \in DOMAIN cacheStorage /\ key \in DOMAIN cacheStorage[CACHE]
    THEN cacheStorage[CACHE][key]
    ELSE NoResponse

\* the entries of a cache, none when it does not exist
Entries(name) ==
    IF name \in DOMAIN cacheStorage THEN cacheStorage[name]
    ELSE [key \in {} |-> NoResponse]

\* caches.open(name).then(c => c.put(key, doc)) and addAll
WithEntries(name, added) ==
    [n \in DOMAIN cacheStorage \cup {name} |->
        IF n = name
        THEN [key \in DOMAIN Entries(name) \cup DOMAIN added |->
                 IF key \in DOMAIN added THEN added[key] ELSE Entries(name)[key]]
        ELSE cacheStorage[n]]

InitWorker ==
    /\ NormIdle
    /\ DownIdle
    /\ ServerIdle
    /\ FallIdle
    /\ script \in {1, 3}
    /\ lifecycle = "installing"
    /\ online \in BOOLEAN
    /\ cacheStorage \in
          { [n \in {} |-> NoResponse],
            [n \in {OldCache} |-> [key \in {"/index.html"} |-> Response(200, "oldShell")]] }
    /\ fetches = <<>>

\* install: skipWaiting and waitUntil(caches.open(CACHE).then(c => c.addAll(ASSETS)));
\* addAll stores every asset or, when one of them cannot be fetched, none
Install(complete) ==
    /\ lifecycle = "installing"
    /\ complete => online
    /\ cacheStorage' =
          WithEntries(CACHE, IF complete THEN [url \in ASSETS |-> ServerResponse(url)]
                                         ELSE [url \in {} |-> NoResponse])
    /\ lifecycle' = IF complete THEN "installed" ELSE "redundant"
    /\ UNCHANGED <<script, online, fetches, normVars, downVars, serverVars, fallVars>>

\* activate: every cache but CACHE is deleted, clients.claim()
Activate ==
    /\ lifecycle = "installed"
    /\ cacheStorage' = [n \in DOMAIN cacheStorage \cap {CACHE} |-> cacheStorage[n]]
    /\ lifecycle' = "activated"
    /\ UNCHANGED <<script, online, fetches, normVars, downVars, serverVars, fallVars>>

FetchEvent(req, intercepted, pc) ==
    [req |-> req, intercepted |-> intercepted, pc |-> pc, net |-> "unused",
     offline |-> ~online, response |-> NoResponse, put |-> NoPut]

\* the fetch listener of the gold-app-v1 script, up to e.respondWith
FetchListenerV1(req) ==
    IF IncludesGoldApi(req.hostname) THEN FetchEvent(req, FALSE, "passthrough")
    ELSE FetchEvent(req, TRUE, "matching")

\* the fetch listener of the gold-app-v3 script, up to e.respondWith
FetchListenerV3(req) ==
    IF req.origin # SelfOrigin THEN FetchEvent(req, FALSE, "passthrough")
    ELSE IF req.mode = "navigate" THEN FetchEvent(req, TRUE, "fetching")
    ELSE FetchEvent(req, TRUE, "matching")

\* a page controlled by the worker makes a request
FetchListener(req) ==
    /\ lifecycle = "activated"
    /\ Len(fetches) < MaxFetch
    /\ fetches' = Append(fetches, IF script = 1 THEN FetchListenerV1(req)
                                  ELSE FetchListenerV3(req))
    /\ UNCHANGED <<script, lifecycle, online, cacheStorage,
                   normVars, downVars, serverVars, fallVars>>

\* caches.match(e.request) settles: cached, or the fetch is started
CacheMatchSettles(e) ==
    /\ e \in DOMAIN fetches
    /\ fetches[e].pc = "matching"
    /\ fetches' = [fetches EXCEPT ![e] =
          IF Match(fetches[e].req.url) # NoResponse
          THEN [fetches[e] EXCEPT !.pc = "done", !.response = Match(fetches[e].req.url)]
          ELSE [fetches[e] EXCEPT !.pc = "fetching"]]
    /\ UNCHANGED <<script, lifecycle, online, cacheStorage,
                   normVars, downVars, serverVars, fallVars>>

\* fetch(req) resolved with res.  A navigation of the v3 script returns res
\* and clones it only after caches.open has settled, when the body may be in
\* use already and clone() throws; the other paths clone before returning.
Fetched(event, res, cloned) ==
    [event EXCEPT
        !.pc = "done", !.net = "ok", !.response = res,
        !.put = IF script = 3 /\ event.req.mode = "navigate"
                THEN IF cloned THEN Put("/index.html", res) ELSE NoPut
                ELSE Put(event.req.url, res)]

\* fetch(req) rejected: the catch of the script, or none
FetchFailed(event) ==
    IF script = 3
    THEN IF event.req.mode = "navigate"
         THEN [event EXCEPT !.pc = "fallback", !.net = "failed"]
         ELSE [event EXCEPT !.pc = "done", !.net = "failed", !.response = NetworkError]
    ELSE IF event.req.mode = "navigate"
         THEN [event EXCEPT !.pc = "fallback", !.net = "failed"]
         ELSE [event EXCEPT !.pc = "done", !.net = "failed",
                            !.response = Response(503, "Offline")]

\* the network answers a request, or fails to
NetworkSettles(e, cloned) ==
    /\ e \in DOMAIN fetches
    /\ fetches[e].pc \in {"passthrough", "fetching"}
    /\ fetches' = [fetches EXCEPT ![e] =
          IF fetches[e].pc = "passthrough"
          THEN [fetches[e] EXCEPT
                   !.pc = "done", !.net = IF online THEN "ok" ELSE "failed",
                   !.response = IF online THEN ServerResponse(fetches[e].req.url)
                                ELSE NetworkError]
          ELSE IF online
          THEN Fetched(fetches[e], ServerResponse(fetches[e].req.url), cloned)
          ELSE FetchFailed(fetches[e])]
    /\ UNCHANGED <<script, lifecycle, online, cacheStorage,
                   normVars, downVars, serverVars, fallVars>>

\* caches.match("/index.html") settles; undefined given to respondWith is a
\* network error
IndexMatchSettles(e) ==
    /\ e \in DOMAIN fetches
    /\ fetches[e].pc = "fallback"
    /\ fetches' = [fetches EXCEPT ![e].pc = "done",
                                  ![e].response = IF Match("/index.html") # NoResponse
                                                  THEN Match("/index.html")
                                                  ELSE NetworkError]
    /\ UNCHANGED <<script, lifecycle, online, cacheStorage,
                   normVars, downVars, serverVars, fallVars>>

\* caches.open(CACHE).then(c => c.put(key, copy)) settles
CachePutSettles(e) ==
    /\ e \in DOMAIN fetches
    /\ fetches[e].put.state = "pending"
    /\ cacheStorage' = WithEntries(CACHE, [key \in {fetches[e].put.key} |-> fetches[e].put.doc])
    /\ fetches' = [fetches EXCEPT ![e].put = NoPut]
    /\ UNCHANGED <<script, lifecycle, online, normVars, downVars, serverVars, fallVars>>

\* the network goes away or comes back
NetworkChanges ==
    /\ lifecycle # "redundant"
    /\ online' = ~online
    /\ UNCHANGED <<script, lifecycle, cacheStorage, fetches,
                   normVars, downVars, serverVars, fallVars>>

NextWorker ==
    \/ \E complete \in BOOLEAN : Install(complete)
    \/ Activate
    \/ \E req \in RequestPool : FetchListener(req)
    \/ \E e \in 1..MaxFetch : CacheMatchSettles(e)
    \/ \E e \in 1..MaxFetch, cloned \in BOOLEAN : NetworkSettles(e, cloned)
    \/ \E e \in 1..MaxFetch : IndexMatchSettles(e)
    \/ \E e \in 1..MaxFetch : CachePutSettles(e)
    \/ NetworkChanges

SpecWorker == InitWorker /\ [][NextWorker]_vars

(***************************************************************************)
(* Properties of the service worker.                                       *)
(***************************************************************************)
ChartDataEndpoint(req) == req.origin = SelfOrigin /\ req.url = "/api/chart-data"
ThirdParty(req) == req.origin # SelfOrigin

\* a response for url is held in some cache
Stored(url) == \E n \in DOMAIN cacheStorage : url \in DOMAIN cacheStorage[n]

\* C15: a request to /api/chart-data on the app's origin or to a third-party
\* origin is never given to respondWith and never stored in a cache: it is
\* answered by the network alone.
C15_NeverIntercepts ==
    \A e \in DOMAIN fetches :
        (ChartDataEndpoint(fetches[e].req) \/ ThirdParty(fetches[e].req))
        => /\ ~fetches[e].intercepted
           /\ fetches[e].put.state = "none"
           /\ ~Stored(fetches[e].req.url)
           /\ fetches[e].pc = "done" => fetches[e].net # "unused"

\* the worker found the network unavailable for the event, or answered without
\* the network an event dispatched while it was unavailable
Unavailable(e) ==
    \/ fetches[e].net = "failed"
    \/ fetches[e].net = "unused" /\ fetches[e].offline

\* C16: once installed, a same-origin navigation made while the network is
\* unavailable is answered with the cached application shell.
C16_OfflineNavigationGetsShell ==
    \A e \in DOMAIN fetches :
        (/\ fetches[e].req.mode = "navigate"
         /\ fetches[e].req.origin = SelfOrigin
         /\ fetches[e].pc = "done"
         /\ Unavailable(e))
        => fetches[e].response = ServerResponse("/index.html")

=============================================================================
